---- MODULE Spec2Model ----
(***************************************************************************)
(* A model of SpotifyHARExtractor (src/spotify_har.py).                    *)
(*                                                                         *)
(* Text (URLs, content types, response bodies read as text) is a TLA+      *)
(* string, read one character at a time with Len and SubSeq.  Bytes are    *)
(* sequences of integers 0..255.  A JSON value is a record with a tag t:    *)
(*   JStr(s) a string, JNum a number, JList(values) a list, JDict(pairs)   *)
(*   a dict whose items are <<key, value>> pairs in insertion order.       *)
(***************************************************************************)
EXTENDS Integers, Sequences, FiniteSets, TLC

VARIABLES
    found_urls,        \* self.found_urls
    arg,               \* the arguments of the call under way (function specifications)
    ret,               \* what that call returned
    pc,                \* position of process_har_data
    har_data,          \* the parsed document handed to process_har_data
    idx,               \* index of the running loop of process_har_data
    extracted_media,   \* the list extract_spotify_images returns, enriched by download_media
    downloaded_files,  \* process_har_data's downloaded_files
    combined_videos,   \* what combine_webm_segments returned
    files,             \* the output folders: path -> bytes written
    fetched,           \* the URLs requests.get was called on, in order
    todo               \* the members of found_urls the last loop has not visited yet

vars == <<found_urls, arg, ret, pc, har_data, idx, extracted_media,
          downloaded_files, combined_videos, files, fetched, todo>>

(***************************************************************************)
(* Bounds of the model.                                                    *)
(***************************************************************************)
MaxCalls == 3      \* scanner calls on one extractor (SpecScan)
MaxMedia == 4      \* candidates handed to combine_webm_segments (SpecCombine)
MaxEntries == 3    \* entries of a capture document (Spec)
MaxRuns == 2       \* calls of process_har_data on one extractor (SpecRuns)

(***************************************************************************)
(* Text helpers: what Python's str operations do.                          *)
(***************************************************************************)
Min(S) == CHOOSE m \in S : \A n \in S : m <= n
Max(S) == CHOOSE m \in S : \A n \in S : n <= m

\* the element of a one-element set.  A value that is used several times is bound as
\* x \in {value}, which computes it once.
Only(S) == CHOOSE x \in S : TRUE

\* p in s
Contains(s, p) ==
    \E i \in 1..(Len(s) - Len(p) + 1) : SubSeq(s, i, i + Len(p) - 1) = p

\* s.find(p, start), 1-based; 0 when p does not occur at or after start
Find(s, p, start) ==
    LET hits == {i \in start..(Len(s) - Len(p) + 1) : SubSeq(s, i, i + Len(p) - 1) = p}
    IN  IF hits = {} THEN 0 ELSE Min(hits)

\* s.rfind(p), 1-based; 0 when p does not occur
RFind(s, p) ==
    LET hits == {i \in 1..(Len(s) - Len(p) + 1) : SubSeq(s, i, i + Len(p) - 1) = p}
    IN  IF hits = {} THEN 0 ELSE Max(hits)

CharAt(s, i) == SubSeq(s, i, i)

\* s[a-1:b] of Python: the characters a..b of s that exist
Slice(s, a, b) == SubSeq(s, a, IF b > Len(s) THEN Len(s) ELSE b)

Digits == {"0", "1", "2", "3", "4", "5", "6", "7", "8", "9"}
HexLower == Digits \cup {"a", "b", "c", "d", "e", "f"}
AsciiLower == {"a", "b", "c", "d", "e", "f", "g", "h", "i", "j", "k", "l", "m",
               "n", "o", "p", "q", "r", "s", "t", "u", "v", "w", "x", "y", "z"}
AsciiUpper == {"A", "B", "C", "D", "E", "F", "G", "H", "I", "J", "K", "L", "M",
               "N", "O", "P", "Q", "R", "S", "T", "U", "V", "W", "X", "Y", "Z"}
AsciiLetters == AsciiLower \cup AsciiUpper

\* Letters outside ASCII that str.isalnum() accepts (a sample of them).
UnicodeLetters == {"é", "ß"}

\* the length of the longest run of characters of class at s[i..]
RECURSIVE RunLen(_, _, _)
RunLen(s, i, class) ==
    IF i <= Len(s) /\ CharAt(s, i) \in class THEN 1 + RunLen(s, i + 1, class) ELSE 0

DigitValue(c) ==
    CASE c = "0" -> 0 [] c = "1" -> 1 [] c = "2" -> 2 [] c = "3" -> 3 [] c = "4" -> 4
      [] c = "5" -> 5 [] c = "6" -> 6 [] c = "7" -> 7 [] c = "8" -> 8 [] c = "9" -> 9

\* int(s) for a string of decimal digits
RECURSIVE ParseInt(_)
ParseInt(s) ==
    IF Len(s) = 0 THEN 0
    ELSE 10 * ParseInt(SubSeq(s, 1, Len(s) - 1)) + DigitValue(CharAt(s, Len(s)))

\* data.startswith(prefix), on bytes
StartsWith(data, prefix) ==
    Len(data) >= Len(prefix) /\ SubSeq(data, 1, Len(prefix)) = prefix

\* needle in data, on bytes
BytesContain(data, needle) ==
    \E i \in 1..(Len(data) - Len(needle) + 1) :
        SubSeq(data, i, i + Len(needle) - 1) = needle

\* data[:n]
Take(data, n) == SubSeq(data, 1, IF Len(data) < n THEN Len(data) ELSE n)

(***************************************************************************)
(* DomainClassifier: is_spotify_image_url, is_spotify_video_url.           *)
(***************************************************************************)
spotify_image_domains ==
    <<"i.scdn.co", "mosaic.scdn.co", "seed-mix-image.spotifycdn.com",
      "lineup-images.scdn.co", "thisis-images.scdn.co", "charts-images.scdn.co",
      "daily-mix.scdn.co", "mixed-media-images.spotifycdn.com">>

spotify_video_domains ==
    <<"video-akpcw.spotifycdn.com", "video-fa723fc0e0b4479496acdae1c1f.spotifycdn.com",
      "canvas.scdn.co", "canvaz.scdn.co">>

is_spotify_image_url(url) ==
    \E k \in 1..Len(spotify_image_domains) : Contains(url, spotify_image_domains[k])

is_spotify_video_url(url) ==
    \E k \in 1..Len(spotify_video_domains) : Contains(url, spotify_video_domains[k])

(***************************************************************************)
(* MediaResolver: get_file_extension.                                      *)
(***************************************************************************)
SniffFirstExtension(content_type, data) ==
    IF StartsWith(data, <<255, 216, 255>>) THEN ".jpg"
    ELSE IF StartsWith(data, <<137, 80, 78, 71>>) THEN ".png"
    ELSE IF StartsWith(data, <<71, 73, 70, 56>>) THEN ".gif"
    ELSE IF StartsWith(data, <<26, 69, 223, 163>>) THEN ".webm"
    ELSE IF Contains(content_type, "jpeg") \/ Contains(content_type, "jpg") THEN ".jpg"
    ELSE IF Contains(content_type, "png") THEN ".png"
    ELSE IF Contains(content_type, "gif") THEN ".gif"
    ELSE IF Contains(content_type, "webp") THEN ".webp"
    ELSE IF Contains(content_type, "webm") THEN ".webm"
    ELSE IF Contains(content_type, "mp4") THEN ".mp4"
    ELSE ".bin"

get_file_extension(content_type, data) ==
    IF Contains(content_type, "jpeg") \/ Contains(content_type, "jpg") THEN ".jpg"
    ELSE IF Contains(content_type, "png") THEN ".png"
    ELSE IF Contains(content_type, "gif") THEN ".gif"
    ELSE IF Contains(content_type, "webp") THEN ".webp"
    ELSE IF Contains(content_type, "webm") THEN ".webm"
    ELSE IF Contains(content_type, "mp4") THEN ".mp4"
    \* magic bytes: JPEG SOI, \x89PNG, GIF8, RIFF..WEBP, EBML, ...ftyp
    ELSE IF StartsWith(data, <<255, 216, 255>>) THEN ".jpg"
    ELSE IF StartsWith(data, <<137, 80, 78, 71>>) THEN ".png"
    ELSE IF StartsWith(data, <<71, 73, 70, 56>>) THEN ".gif"
    ELSE IF StartsWith(data, <<82, 73, 70, 70>>)
            /\ BytesContain(Take(data, 20), <<87, 69, 66, 80>>) THEN ".webp"
    ELSE IF StartsWith(data, <<26, 69, 223, 163>>) THEN ".webm"
    ELSE IF StartsWith(data, <<0, 0, 0>>)
            /\ BytesContain(Take(data, 20), <<102, 116, 121, 112>>) THEN ".mp4"
    ELSE ".bin"

(***************************************************************************)
(* MediaResolver: generate_filename.  urlparse is the standard library's;  *)
(* its path component is computed the way urlsplit and _splitparams do.    *)
(***************************************************************************)
UpperChars == "ABCDEFGHIJKLMNOPQRSTUVWXYZ"
LowerChars == "abcdefghijklmnopqrstuvwxyz"

LowerChar(c) ==
    IF c \in AsciiUpper THEN CharAt(LowerChars, Find(UpperChars, c, 1)) ELSE c

\* s.lower()
RECURSIVE Lower(_)
Lower(s) ==
    IF Len(s) = 0 THEN "" ELSE LowerChar(CharAt(s, 1)) \o Lower(SubSeq(s, 2, Len(s)))

scheme_chars == AsciiLetters \cup Digits \cup {"+", "-", "."}

uses_params == {"", "ftp", "hdl", "http", "https", "imap", "mms", "prospero", "rtsp",
                "rtsps", "rtspu", "sftp", "shttp", "sip", "sips", "tel"}

\* the position of the ':' ending the scheme, 0 when the URL has no scheme
SchemeEnd(url) ==
    LET i == Find(url, ":", 1)
    IN  IF /\ i > 1
           /\ CharAt(url, 1) \in AsciiLetters
           /\ \A k \in 1..(i - 1) : CharAt(url, k) \in scheme_chars
        THEN i ELSE 0

\* what is left of s from the first of the characters of stops (all of s when none occurs)
RestFrom(s, start, stops) ==
    LET hits == {i \in start..Len(s) : CharAt(s, i) \in stops}
    IN  IF hits = {} THEN "" ELSE SubSeq(s, Min(hits), Len(s))

\* s up to the first occurrence of the character c (all of s when c does not occur)
Before(s, c) ==
    LET i == Find(s, c, 1) IN IF i = 0 THEN s ELSE SubSeq(s, 1, i - 1)

\* _splitparams(url)[0]
SplitParams(p) ==
    LET slash == RFind(p, "/")
        i == IF slash > 0 THEN Find(p, ";", slash) ELSE Find(p, ";", 1)
    IN  IF i = 0 THEN p ELSE SubSeq(p, 1, i - 1)

\* urlparse(url).path
urlparse_path(url) ==
    LET e == SchemeEnd(url)
        scheme == Lower(SubSeq(url, 1, e - 1))
        rest == SubSeq(url, e + 1, Len(url))
        noloc == IF Slice(rest, 1, 2) = "//" THEN RestFrom(rest, 3, {"/", "?", "#"})
                 ELSE rest
        p == Before(Before(noloc, "#"), "?")
    IN  IF scheme \in uses_params /\ Contains(p, ";") THEN SplitParams(p) ELSE p

\* s.strip('/')
RECURSIVE StripSlashes(_)
StripSlashes(s) ==
    IF Len(s) > 0 /\ CharAt(s, 1) = "/" THEN StripSlashes(SubSeq(s, 2, Len(s)))
    ELSE IF Len(s) > 0 /\ CharAt(s, Len(s)) = "/" THEN StripSlashes(SubSeq(s, 1, Len(s) - 1))
    ELSE s

\* s.split('/')[-1]
LastPart(s) == SubSeq(s, RFind(s, "/") + 1, Len(s))

\* the regular expression class \w on str: alphanumerics of any script, and '_'
IsWordChar(c) == c \in AsciiLetters \cup Digits \cup UnicodeLetters \cup {"_"}

\* one character through re.sub(r'[^\w\-_.]', '_', ...)
SanitizeChar(c) == IF IsWordChar(c) \/ c \in {"-", "_", "."} THEN c ELSE "_"

RECURSIVE Sanitize(_)
Sanitize(s) ==
    IF Len(s) = 0 THEN "" ELSE SanitizeChar(CharAt(s, 1)) \o Sanitize(SubSeq(s, 2, Len(s)))

DigitChars == "0123456789"

\* str(n), n >= 0
RECURSIVE FormatInt(_)
FormatInt(n) ==
    IF n < 10 THEN CharAt(DigitChars, n + 1)
    ELSE FormatInt(n \div 10) \o CharAt(DigitChars, (n % 10) + 1)

\* now is int(time.time()) at the call
generate_filename(url, ext, now) ==
    LET last == LastPart(StripSlashes(urlparse_path(url)))
        base_name == IF last # ""
                     THEN IF Contains(last, ".") THEN SubSeq(last, 1, RFind(last, ".") - 1)
                          ELSE last
                     ELSE "spotify_media_" \o FormatInt(now)
    IN  Sanitize(base_name) \o ext

(***************************************************************************)
(* get_file_extension and generate_filename, called on their own.          *)
(***************************************************************************)
ContentTypes == {"", "image/jpeg", "image/jpg", "image/png", "image/gif", "image/webp",
                 "video/webm", "video/mp4", "application/octet-stream", "text/html"}

Payloads == { <<255, 216, 255, 224, 0>>,                       \* JPEG
              <<137, 80, 78, 71, 13>>,                          \* PNG
              <<71, 73, 70, 56, 57>>,                           \* GIF
              <<82, 73, 70, 70, 0, 0, 0, 0, 87, 69, 66, 80>>,   \* RIFF....WEBP
              <<26, 69, 223, 163, 1>>,                          \* EBML
              <<0, 0, 0, 24, 102, 116, 121, 112>>,              \* ....ftyp
              <<82, 73, 70, 70, 1>>,                            \* RIFF, no WEBP
              <<60, 104, 116, 109, 108>>,                       \* <html
              <<>> }

Extensions == {".jpg", ".png", ".gif", ".webp", ".webm", ".mp4", ".bin"}

FilenameURLs == {
    "https://i.scdn.co/image/ab67616d0000b273",
    "https://i.scdn.co/image/cover.jpg",
    "https://i.scdn.co/image/a b;c.jpg",
    "https://i.scdn.co/image/caf%C3%A9.png?size=640#top",
    "https://i.scdn.co/image/café.jpg",
    "https://i.scdn.co/image/Straße/",
    "https://i.scdn.co/image/.jpg",
    "https://i.scdn.co/",
    "https://i.scdn.co",
    "i.scdn.co/x:y/z~1.tar.gz",
    "//mosaic.scdn.co/640/a(1)+b=c&d",
    "https://video-akpcw.spotifycdn.com/sources/a1/profiles/7/0.webm" }

Clock == {1793815933, 0}

\* int(time.time()) during a run of process_har_data
RunClock == {1793815933}

NoResult == "(no result)"

\* no document was handed over yet
NoDocument == [log |-> "none", entries |-> <<>>]

InitFunctions ==
    /\ found_urls = {}
    /\ ret = NoResult
    /\ pc = "idle"
    /\ har_data = NoDocument
    /\ idx = 0
    /\ extracted_media = <<>>
    /\ downloaded_files = <<>>
    /\ combined_videos = <<>>
    /\ files = <<>>
    /\ fetched = <<>>
    /\ todo = {}

InitResolve ==
    /\ InitFunctions
    /\ arg \in [fn : {"get_file_extension"}, content_type : ContentTypes,
                data : Payloads, url : {""}, ext : {""}, now : {0}]
               \cup
               [fn : {"generate_filename"}, content_type : {""}, data : {<<>>},
                url : FilenameURLs, ext : Extensions, now : Clock]

CallGetFileExtension ==
    /\ arg.fn = "get_file_extension"
    /\ ret = NoResult
    /\ ret' = get_file_extension(arg.content_type, arg.data)
    /\ UNCHANGED <<found_urls, arg, pc, har_data, idx, extracted_media,
                   downloaded_files, combined_videos, files, fetched, todo>>

CallGenerateFilename ==
    /\ arg.fn = "generate_filename"
    /\ ret = NoResult
    /\ ret' = generate_filename(arg.url, arg.ext, arg.now)
    /\ UNCHANGED <<found_urls, arg, pc, har_data, idx, extracted_media,
                   downloaded_files, combined_videos, files, fetched, todo>>

NextResolve == CallGetFileExtension \/ CallGenerateFilename

SpecResolve == InitResolve /\ [][NextResolve]_vars

(***************************************************************************)
(* C4, C5: get_file_extension and generate_filename.                       *)
(***************************************************************************)
\* the content-type table of get_file_extension, in its order
KindTokens == <<"jpeg", "jpg", "png", "gif", "webp", "webm", "mp4">>
KindNamed == <<".jpg", ".jpg", ".png", ".gif", ".webp", ".webm", ".mp4">>

\* C4: when the declared content-type contains a token of the table, get_file_extension
\* returns the kind that token names, and returns it for every byte payload; the magic
\* bytes decide only when no token occurs.
C4_HeaderWinsOverSniffing ==
    (arg.fn = "get_file_extension" /\ ret # NoResult) =>
        LET named == {k \in 1..Len(KindTokens) : Contains(arg.content_type, KindTokens[k])}
        IN  named # {} =>
                /\ ret = KindNamed[Min(named)]
                /\ \A d \in Payloads : get_file_extension(arg.content_type, d) = ret

\* C4 witness: content-type image/png with a JPEG payload has resolved to .png
C4_PngHeaderJpegBytes ==
    /\ arg.fn = "get_file_extension"
    /\ arg.content_type = "image/png"
    /\ StartsWith(arg.data, <<255, 216, 255>>)
    /\ ret = ".png"

SafeFilenameChars == AsciiLetters \cup Digits \cup {"_", ".", "-"}

\* C5: the filename generate_filename returns is never empty and holds only characters
\* of [A-Za-z0-9_.-].
C5_FilenameIsSafe ==
    (arg.fn = "generate_filename" /\ ret # NoResult) =>
        /\ ret # ""
        /\ \A i \in 1..Len(ret) : CharAt(ret, i) \in SafeFilenameChars

(***************************************************************************)
(* ReferenceScanner: find_image_patterns_in_text, find_images_in_json.     *)
(* Each returns the URLs the call adds to self.found_urls.                 *)
(***************************************************************************)
\* r'ab67616[a-f0-9]{32}', r'ab6761610000[a-f0-9]{24}', r'ab67616d[a-f0-9]{32}'
patterns == << [prefix |-> "ab67616", n |-> 32],
               [prefix |-> "ab6761610000", n |-> 24],
               [prefix |-> "ab67616d", n |-> 32] >>

\* the pattern matches at text[i..]
MatchesAt(text, i, pattern) ==
    LET p == Len(pattern.prefix)
    IN  /\ i + p + pattern.n - 1 <= Len(text)
        /\ SubSeq(text, i, i + p - 1) = pattern.prefix
        /\ \A k \in (i + p)..(i + p + pattern.n - 1) : CharAt(text, k) \in HexLower

\* re.findall(pattern, text) from position i on: leftmost matches, not overlapping
RECURSIVE FindAll(_, _, _)
FindAll(text, i, pattern) ==
    LET size == Len(pattern.prefix) + pattern.n
    IN  IF i > Len(text) THEN <<>>
        ELSE IF MatchesAt(text, i, pattern)
             THEN <<SubSeq(text, i, i + size - 1)>> \o FindAll(text, i + size, pattern)
             ELSE FindAll(text, i + 1, pattern)

image_urls(match) ==
    { "https://i.scdn.co/image/" \o match,
      "https://mosaic.scdn.co/640/" \o match,
      "https://mosaic.scdn.co/300/" \o match }

find_image_patterns_in_text(text) ==
    UNION { UNION { image_urls(FindAll(text, 1, patterns[k])[m]) :
                        m \in 1..Len(FindAll(text, 1, patterns[k])) } :
            k \in 1..Len(patterns) }

JStr(s) == [t |-> "str", s |-> s, items |-> <<>>]
JNum == [t |-> "num", s |-> "", items |-> <<>>]
JList(values) == [t |-> "list", s |-> "",
                  items |-> [k \in 1..Len(values) |-> [key |-> "", value |-> values[k]]]]
JDict(pairs) == [t |-> "dict", s |-> "",
                 items |-> [k \in 1..Len(pairs) |-> [key |-> pairs[k][1], value |-> pairs[k][2]]]]

curated_keys == {"image", "images", "cover_art", "avatar", "picture", "artwork"}

RECURSIVE find_images_in_json(_)
find_images_in_json(data) ==
    IF data.t = "dict"
    THEN UNION { LET key == data.items[k].key
                     value == data.items[k].value
                 IN  IF key \in curated_keys
                     THEN IF value.t = "str" /\ is_spotify_image_url(value.s)
                          THEN {value.s} ELSE {}
                     ELSE IF value.t \in {"dict", "list"}
                          THEN find_images_in_json(value) ELSE {} :
                 k \in 1..Len(data.items) }
    ELSE IF data.t = "list"
    THEN UNION { find_images_in_json(data.items[k].value) : k \in 1..Len(data.items) }
    ELSE {}

(***************************************************************************)
(* The scanner functions called on one extractor, up to MaxCalls times.    *)
(***************************************************************************)
IdLiteral == "ab67616d00112233445566778899aabbccddeeff0011223344"

Texts == { IdLiteral,
           "ab67616d00112233445566778899aabbccddeeff",
           "{\"uri\":\"spotify:image:ab6761610000e5eb0123456789abcdef01234567\"}",
           "<html>ab67616 not an identifier</html>",
           "" }

ImgX == "https://i.scdn.co/image/x"
ImgY == "https://mosaic.scdn.co/300/y"

JsonValues == {
    JDict(<< <<"image", JStr(ImgX)>> >>),
    JDict(<< <<"album", JDict(<< <<"cover_art", JStr(ImgX)>>, <<"name", JStr("n")>> >>)>> >>),
    JDict(<< <<"images", JList(<< JDict(<< <<"image", JStr(ImgX)>> >>) >>)>> >>),
    JDict(<< <<"artwork", JDict(<< <<"picture", JStr(ImgY)>> >>)>>,
             <<"avatar", JStr(ImgX)>> >>),
    JList(<< JDict(<< <<"avatar", JStr("https://example.com/a.png")>> >>),
             JDict(<< <<"url", JStr(ImgX)>>, <<"picture", JStr(ImgY)>> >>) >>),
    JDict(<< <<"items", JList(<< JList(<< JDict(<< <<"image", JStr(ImgY)>> >>) >>), JNum >>)>>,
             <<"total", JNum>> >>),
    JStr(ImgX) }

InitScan ==
    /\ InitFunctions
    /\ arg = [fn |-> "none", input |-> "", before |-> {}]

CallFindImagePatternsInText ==
    /\ idx < MaxCalls
    /\ \E text \in Texts :
        /\ found_urls' = found_urls \cup find_image_patterns_in_text(text)
        /\ arg' = [fn |-> "find_image_patterns_in_text", input |-> text, before |-> found_urls]
    /\ idx' = idx + 1
    /\ UNCHANGED <<ret, pc, har_data, extracted_media, downloaded_files,
                   combined_videos, files, fetched, todo>>

CallFindImagesInJson ==
    /\ idx < MaxCalls
    /\ \E data \in JsonValues :
        /\ found_urls' = found_urls \cup find_images_in_json(data)
        /\ arg' = [fn |-> "find_images_in_json", input |-> data, before |-> found_urls]
    /\ idx' = idx + 1
    /\ UNCHANGED <<ret, pc, har_data, extracted_media, downloaded_files,
                   combined_videos, files, fetched, todo>>

NextScan == CallFindImagePatternsInText \/ CallFindImagesInJson

SpecScan == InitScan /\ [][NextScan]_vars

\* C3: scanning the literal, which holds the single identifier ab67616d + 32 hexadecimal
\* characters, on an empty discovered set leaves exactly the three URLs built from the
\* templates for that identifier.
C3_LiteralYieldsThreeURLs ==
    (/\ arg.fn = "find_image_patterns_in_text"
     /\ arg.input = IdLiteral
     /\ arg.before = {}) =>
        found_urls = image_urls(SubSeq(IdLiteral, 1, 40))

\* every string held under a curated key anywhere in a JSON value, that is an image URL
RECURSIVE CuratedImageStrings(_)
CuratedImageStrings(data) ==
    UNION { LET e == data.items[k]
            IN  (IF /\ data.t = "dict"
                    /\ e.key \in curated_keys
                    /\ e.value.t = "str"
                    /\ is_spotify_image_url(e.value.s)
                 THEN {e.value.s} ELSE {})
                \cup CuratedImageStrings(e.value) :
            k \in 1..Len(data.items) }

\* C9: after find_images_in_json(data), every mapping entry at any depth of data whose key
\* is curated and whose value is an image-URL string is in the discovered set, entries
\* nested below another curated key included.
C9_EveryCuratedEntryIsCollected ==
    arg.fn = "find_images_in_json" => CuratedImageStrings(arg.input) \subseteq found_urls

(***************************************************************************)
(* MediaResolver: download_media and save_embedded_media.                  *)
(*                                                                         *)
(* A media_info is the dict extract_spotify_images builds; the keys kept   *)
(* are the ones the resolver and the assembler read.  A key that may be    *)
(* absent has a flag: has_decoded stands for 'decoded_data' in media_info, *)
(* is_video_segment is False where the key was never set.                  *)
(***************************************************************************)
MinBodyLen == 100

images_folder == "har_extracted/images"
videos_folder == "har_extracted/videos"

\* os.path.join(folder, name)
PathJoin(folder, name) == folder \o "/" \o name

NewMediaInfo(url, content_type) ==
    [url |-> url, content_type |-> content_type,
     has_decoded |-> FALSE, decoded_data |-> <<>>,
     is_video_segment |-> FALSE, segment_data |-> <<>>, segment_type |-> ""]

\* the segment role download_media gives a flagged candidate
segment_type_of(url) ==
    IF Contains(url, "inits") THEN "init"
    ELSE IF Contains(url, "/0.webm") \/ Contains(url, "/1.webm") \/ Contains(url, "/2.webm")
         THEN "media"
         ELSE "unknown"

\* the response is accepted
Accepted(response) ==
    /\ ~response.raised
    /\ response.status = 200
    /\ Len(response.content) > MinBodyLen

save_embedded_media_flagging(media_info, now) ==
    LET ext == get_file_extension(media_info.content_type, media_info.decoded_data)
    IN  [media_info |-> [media_info EXCEPT !.is_video_segment = TRUE,
                                           !.segment_data = media_info.decoded_data,
                                           !.segment_type = segment_type_of(media_info.url)],
         filepath |-> PathJoin(videos_folder, generate_filename(media_info.url, ext, now)),
         data |-> media_info.decoded_data, fetched |-> FALSE]

\* save_embedded_media: [media_info, filepath, data]
save_embedded_media(media_info, now) ==
    LET ext == get_file_extension(media_info.content_type, media_info.decoded_data)
        filename == generate_filename(media_info.url, ext, now)
        folder == IF Contains(media_info.content_type, "video") \/ ext \in {".webm", ".mp4"}
                  THEN videos_folder ELSE images_folder
    IN  [media_info |-> media_info, filepath |-> PathJoin(folder, filename),
         data |-> media_info.decoded_data, fetched |-> FALSE]

\* download_media: [media_info as it leaves the call, filepath ("" for None), data written,
\* whether requests.get was called]
download_media(media_info, response, now) ==
    IF media_info.has_decoded THEN save_embedded_media(media_info, now)
    ELSE IF ~Accepted(response)
    THEN [media_info |-> media_info, filepath |-> "", data |-> <<>>, fetched |-> TRUE]
    ELSE
        LET url == media_info.url
            content_type == Lower(response.content_type)
            ext == get_file_extension(content_type, response.content)
            filename == generate_filename(url, ext, now)
            video == \/ Contains(content_type, "video")
                     \/ ext \in {".webm", ".mp4"}
                     \/ Contains(url, "video-akpcw.spotifycdn.com")
            segment == video /\ (Contains(Lower(url), "webm") \/ ext = ".webm")
        IN  [media_info |->
                 IF segment
                 THEN [media_info EXCEPT !.is_video_segment = TRUE,
                                         !.segment_data = response.content,
                                         !.segment_type = segment_type_of(url)]
                 ELSE media_info,
             filepath |-> PathJoin(IF video THEN videos_folder ELSE images_folder, filename),
             data |-> response.content,
             fetched |-> TRUE]

(***************************************************************************)
(* The URLs of the model.                                                  *)
(***************************************************************************)
InitA == "https://video-akpcw.spotifycdn.com/sources/a1/profiles/7/inits/webm"
InitA2 == "https://video-akpcw.spotifycdn.com/sources/a1/profiles/7/inits/webm?r=2"
SegA0 == "https://video-akpcw.spotifycdn.com/sources/a1/profiles/7/0.webm"
SegA1 == "https://video-akpcw.spotifycdn.com/sources/a1/profiles/7/1.webm"
SegA2 == "https://video-akpcw.spotifycdn.com/sources/a1/profiles/7/2.webm"
SegA3 == "https://video-akpcw.spotifycdn.com/sources/a1/profiles/7/3.webm"
SegB0 == "https://video-akpcw.spotifycdn.com/sources/b2/profiles/10/0.webm"
SegNoIds == "https://video-akpcw.spotifycdn.com/segments/1.webm"
SegOtherHost == "https://canvaz.scdn.co/sources/a1/profiles/7/0.webm"

SegmentURLs == <<InitA, InitA2, SegA0, SegA1, SegA2, SegA3, SegB0, SegNoIds, SegOtherHost>>

KnownURLs == SegmentURLs \o <<ImgX, ImgY>>

ModelURLs == {KnownURLs[k] : k \in 1..Len(KnownURLs)}

(***************************************************************************)
(* SegmentAssembler: combine_webm_segments, extract_segment_number,        *)
(* convert_to_mp4.                                                         *)
(***************************************************************************)
\* re.search(prefix + '(class+)' + suffix, url).group(1); "" when there is no match
SearchRun(url, prefix, class, suffix) ==
    LET hits == {i \in 1..Len(url) :
                    LET from == i + Len(prefix)
                        run == RunLen(url, from, class)
                    IN  /\ Slice(url, i, from - 1) = prefix
                        /\ run >= 1
                        /\ Slice(url, from + run, from + run + Len(suffix) - 1) = suffix}
    IN  IF hits = {} THEN ""
        ELSE LET from == Min(hits) + Len(prefix)
             IN  SubSeq(url, from, from + RunLen(url, from, class) - 1)

\* re.search(r'sources/([a-f0-9]+)/', url)
source_match(url) == SearchRun(url, "sources/", HexLower, "/")

\* re.search(r'profiles/(\d+)/', url)
profile_match(url) == SearchRun(url, "profiles/", Digits, "/")

extract_segment_number(url) ==
    LET digits == SearchRun(url, "/", Digits, ".webm")
    IN  IF digits = "" THEN 0 ELSE ParseInt(digits)

\* what the first loop of combine_webm_segments reads off a candidate's URL
url_facts(url) ==
    [akpcw |-> Contains(url, "video-akpcw.spotifycdn.com"),
     source_id |-> source_match(url),
     profile_id |-> profile_match(url)]

\* url_facts and extract_segment_number of the URLs of the model, evaluated once
UrlFactsTable == [u \in ModelURLs |-> url_facts(u)]
SegmentNumberTable == [u \in ModelURLs |-> extract_segment_number(u)]

UrlFacts(url) == IF url \in ModelURLs THEN UrlFactsTable[url] ELSE url_facts(url)

SegmentNumber(url) ==
    IF url \in ModelURLs THEN SegmentNumberTable[url] ELSE extract_segment_number(url)

\* the candidate enters a segment group
IsGrouped(media_info) ==
    /\ media_info.is_video_segment
    /\ UrlFacts(media_info.url).akpcw
    /\ UrlFacts(media_info.url).source_id # ""
    /\ UrlFacts(media_info.url).profile_id # ""

group_key_of(url) == UrlFacts(url).source_id \o "_profile_" \o UrlFacts(url).profile_id

\* segment_groups once the first loop has read the candidate at position n: groups in the
\* order their keys were first seen; init is the position in extracted_media of the
\* group's init candidate (0 for None), segments the positions of the others
add_to_groups(groups, m, n) ==
    LET key == group_key_of(m.url)
        at == {g \in 1..Len(groups) : groups[g].key = key}
        old == IF at = {} THEN [key |-> key, init |-> 0, segments |-> <<>>]
               ELSE groups[CHOOSE g \in at : TRUE]
        new == IF m.segment_type = "init"
               THEN [old EXCEPT !.init = n]
               ELSE [old EXCEPT !.segments = Append(old.segments, n)]
    IN  IF ~IsGrouped(m) THEN groups
        ELSE IF at = {} THEN Append(groups, new)
        ELSE [g \in 1..Len(groups) |-> IF g \in at THEN new ELSE groups[g]]

\* segment_groups after the first loop has read extracted_media[1..n]
RECURSIVE segment_groups(_, _)
segment_groups(media, n) ==
    IF n = 0 THEN <<>>
    ELSE Only({add_to_groups(groups, media[n], n) : groups \in {segment_groups(media, n - 1)}})

unsorted_insert(media, front, x) == Append(front, x)

\* x put into the sorted positions front, after those whose segment number is not larger
sorted_insert(media, front, x) ==
    LET key == SegmentNumber(media[x].url)
        keep == {k \in 1..Len(front) : SegmentNumber(media[front[k]].url) <= key}
        cut == IF keep = {} THEN 0 ELSE Max(keep)
    IN  SubSeq(front, 1, cut) \o <<x>> \o SubSeq(front, cut + 1, Len(front))

\* sorted(segments, key=extract_segment_number): stable
RECURSIVE sorted_segments(_, _)
sorted_segments(media, segments) ==
    IF segments = <<>> THEN <<>>
    ELSE Only({sorted_insert(media, front, segments[Len(segments)]) :
                  front \in {sorted_segments(media, SubSeq(segments, 1, Len(segments) - 1))}})

\* the segment_data of the candidates at the positions order, one after the other
RECURSIVE concat_segments(_, _)
concat_segments(media, order) ==
    IF order = <<>> THEN <<>>
    ELSE media[order[1]].segment_data \o concat_segments(media, Tail(order))

\* s.replace(old, new)
RECURSIVE Replace(_, _, _)
Replace(s, old, new) ==
    IF Len(s) < Len(old) THEN s
    ELSE IF SubSeq(s, 1, Len(old)) = old
         THEN new \o Replace(SubSeq(s, Len(old) + 1, Len(s)), old, new)
         ELSE CharAt(s, 1) \o Replace(SubSeq(s, 2, Len(s)), old, new)

output_path(group_key) == PathJoin(videos_folder, "spotify_canvas_" \o group_key \o ".webm")

mp4_path_of(webm_path) == Replace(webm_path, ".webm", ".mp4")

\* what ffmpeg writes is its own business: a file that starts like an MP4
Transcoded == <<0, 0, 0, 24, 102, 116, 121, 112>>

AssemblesWithoutInit(group) == group.segments # <<>>

\* if init_segment and media_segments
Assembles(group) == group.init # 0 /\ group.segments # <<>>

\* one turn of the second loop, on group; sofar is [paths: the combined_videos list,
\* written: the files written, in order]; converted is the set of paths convert_to_mp4
\* succeeds on
combine_group(media, sofar, group, converted) ==
    LET combined_data == (IF group.init = 0 THEN <<>>
                          ELSE media[group.init].segment_data)
                         \o concat_segments(media, sorted_segments(media, group.segments))
        path == output_path(group.key)
        mp4 == mp4_path_of(path)
    IN  IF ~Assembles(group) THEN sofar
        ELSE IF path \in converted
        THEN [paths |-> sofar.paths \o <<path, mp4>>,
              written |-> sofar.written \o << [path |-> path, data |-> combined_data],
                                               [path |-> mp4, data |-> Transcoded] >>]
        ELSE [paths |-> Append(sofar.paths, path),
              written |-> Append(sofar.written, [path |-> path, data |-> combined_data])]

\* the second loop over groups[1..n]
RECURSIVE combine_groups(_, _, _, _)
combine_groups(media, groups, n, converted) ==
    IF n = 0 THEN [paths |-> <<>>, written |-> <<>>]
    ELSE Only({combine_group(media, sofar, groups[n], converted) :
                  sofar \in {combine_groups(media, groups, n - 1, converted)}})

combine_webm_segments(media, converted) ==
    Only({combine_groups(media, groups, Len(groups), converted) :
             groups \in {segment_groups(media, Len(media))}})

\* the paths combine_webm_segments may hand to convert_to_mp4
ConvertiblePaths(media) ==
    UNION {{output_path(groups[g].key) : g \in {h \in 1..Len(groups) : Assembles(groups[h])}} :
           groups \in {segment_groups(media, Len(media))}}

\* the output folders after one write
Write(fs, w) == [p \in DOMAIN fs \cup {w.path} |-> IF p = w.path THEN w.data ELSE fs[p]]

\* the output folders after the writes in written, in order
RECURSIVE WriteAll(_, _)
WriteAll(fs, written) ==
    IF written = <<>> THEN fs
    ELSE Only({WriteAll(next, Tail(written)) : next \in {Write(fs, written[1])}})

(***************************************************************************)
(* The network: what requests.get answers for a URL.                       *)
(***************************************************************************)
\* a byte that tells the bodies of the known URLs apart
BodyTag(url) ==
    LET at == {k \in 1..Len(KnownURLs) : KnownURLs[k] = url}
    IN  IF at = {} THEN 0 ELSE Min(at)

\* a body of n bytes: the magic bytes of its kind, then the URL's tag
BodyOfLen(url, n) ==
    LET magic == IF is_spotify_video_url(url) THEN <<26, 69, 223, 163>> ELSE <<255, 216, 255>>
    IN  magic \o [k \in 1..(n - Len(magic)) |-> BodyTag(url)]

OkResponse(url) ==
    [raised |-> FALSE, status |-> 200,
     content_type |-> IF is_spotify_video_url(url) THEN "video/webm" ELSE "image/jpeg",
     content |-> BodyOfLen(url, MinBodyLen + 1)]

\* an exception, a status other than 200, a body of exactly MinBodyLen bytes
FailedResponses(url) ==
    { [raised |-> TRUE, status |-> 0, content_type |-> "", content |-> <<>>],
      [raised |-> FALSE, status |-> 404, content_type |-> "text/html", content |-> <<>>],
      [raised |-> FALSE, status |-> 200, content_type |-> "image/jpeg",
       content |-> BodyOfLen(url, MinBodyLen)] }

Responses(url) == {OkResponse(url)} \cup FailedResponses(url)

(***************************************************************************)
(* combine_webm_segments called on the candidates a download loop leaves.  *)
(***************************************************************************)
\* the candidates of SegmentURLs after download_media fetched them
DownloadedSegments ==
    [k \in 1..Len(SegmentURLs) |->
        download_media(NewMediaInfo(SegmentURLs[k], ""), OkResponse(SegmentURLs[k]), 0).media_info]

SeqsUpTo(S, n) == UNION {[1..k -> S] : k \in 0..n}

InitCombine ==
    /\ found_urls = {}
    /\ arg = [fn |-> "combine_webm_segments"]
    /\ ret = NoResult
    /\ pc = "combine"
    /\ har_data = NoDocument
    /\ idx = 0
    /\ \E urls \in SeqsUpTo(1..Len(SegmentURLs), MaxMedia) :
           extracted_media = [k \in 1..Len(urls) |-> DownloadedSegments[urls[k]]]
    /\ downloaded_files = <<>>
    /\ combined_videos = <<>>
    /\ files = <<>>
    /\ fetched = <<>>
    /\ todo = {}

\* process_har_data, line 511-512: the call of combine_webm_segments
CombineSegments ==
    /\ pc = "combine"
    /\ \E converted \in SUBSET ConvertiblePaths(extracted_media) :
        \E result \in {combine_webm_segments(extracted_media, converted)} :
            /\ combined_videos' = result.paths
            /\ downloaded_files' = downloaded_files \o result.paths
            /\ files' = WriteAll(files, result.written)
    /\ pc' = "discovered"
    /\ todo' = found_urls
    /\ UNCHANGED <<found_urls, arg, ret, har_data, idx, extracted_media, fetched>>

NextCombine == CombineSegments

SpecCombine == InitCombine /\ [][NextCombine]_vars

(***************************************************************************)
(* C1, C2, C7, C8: the segment groups and what is written for them.        *)
(***************************************************************************)
\* the positions in extracted_media of the candidates of the group key
Members(key) ==
    {i \in 1..Len(extracted_media) :
        IsGrouped(extracted_media[i]) /\ group_key_of(extracted_media[i].url) = key}

SuppliedKeys ==
    {group_key_of(extracted_media[i].url) :
        i \in {j \in 1..Len(extracted_media) : IsGrouped(extracted_media[j])}}

InitMembers(key) == {i \in Members(key) : extracted_media[i].segment_type = "init"}
MediaMembers(key) == {i \in Members(key) : extracted_media[i].segment_type = "media"}
UnknownMembers(key) == {i \in Members(key) : extracted_media[i].segment_type = "unknown"}

\* the positions S by ascending segment index of their URLs, equal indices in the order
\* supplied
RECURSIVE Ascending(_)
Ascending(S) ==
    IF S = {} THEN <<>>
    ELSE LET first == CHOOSE i \in S : \A j \in S :
                          \/ SegmentNumber(extracted_media[i].url)
                                 < SegmentNumber(extracted_media[j].url)
                          \/ /\ SegmentNumber(extracted_media[i].url)
                                 = SegmentNumber(extracted_media[j].url)
                             /\ i <= j
         IN  <<first>> \o Ascending(S \ {first})

RECURSIVE BytesInOrder(_)
BytesInOrder(order) ==
    IF order = <<>> THEN <<>>
    ELSE extracted_media[order[1]].segment_data \o BytesInOrder(Tail(order))

Returned(path) == \E k \in 1..Len(combined_videos) : combined_videos[k] = path

C2_NoInitNoStream ==
    pc = "discovered" =>
        \A key \in SuppliedKeys :
            /\ (InitMembers(key) = {} /\ MediaMembers(key) # {}) =>
                   /\ ~Returned(output_path(key))
                   /\ ~Returned(mp4_path_of(output_path(key)))
                   /\ output_path(key) \notin DOMAIN files
                   /\ mp4_path_of(output_path(key)) \notin DOMAIN files
            /\ (InitMembers(key) # {} /\ MediaMembers(key) # {}) =>
                   /\ Returned(output_path(key))
                   /\ output_path(key) \in DOMAIN files

\* C2 witness: one group lacks its init candidate, another was assembled in the same call
C2_IncompleteBesideComplete ==
    /\ pc = "discovered"
    /\ \E incomplete \in SuppliedKeys, complete \in SuppliedKeys :
        /\ InitMembers(incomplete) = {}
        /\ MediaMembers(incomplete) # {}
        /\ ~Returned(output_path(incomplete))
        /\ InitMembers(complete) # {}
        /\ Returned(output_path(complete))

\* C7: a candidate of unknown role is left out of assembly: its bytes are in no
\* assembled stream, and a group whose members other than the init are all of unknown
\* role produces no stream.
C7_UnknownRoleExcluded ==
    pc = "discovered" =>
        \A key \in SuppliedKeys :
            /\ (UnknownMembers(key) # {} /\ MediaMembers(key) = {}) =>
                   output_path(key) \notin DOMAIN files
            /\ output_path(key) \in DOMAIN files =>
                   \A u \in UnknownMembers(key) :
                       ~BytesContain(files[output_path(key)], extracted_media[u].segment_data)

\* C8: a group is assembled only with exactly one init candidate: with two or more init
\* candidates of one key, no stream is written for the group.
C8_TwoInitsNoStream ==
    pc = "discovered" =>
        \A key \in SuppliedKeys :
            Cardinality(InitMembers(key)) >= 2 => output_path(key) \notin DOMAIN files

(***************************************************************************)
(* EntryClassifier: extract_spotify_images, get_content_type,              *)
(* extract_api_image_references.                                           *)
(*                                                                         *)
(* The document is har_data: log says what har_data['log'] is ("absent",   *)
(* "null", "list", "object" without an entries key, "entries" for an       *)
(* object that has one), entries the entries.  An entry that is no JSON    *)
(* object has object = FALSE.  Its response content carries what the       *)
(* library calls answer for it: b64_ok and decoded_data for                *)
(* base64.b64decode(text), decoded_text for the text json.loads and the    *)
(* patterns read, json_ok and json for json.loads.                         *)
(***************************************************************************)
NoContent ==
    [text |-> FALSE, encoding |-> "", b64_ok |-> FALSE, decoded_data |-> <<>>,
     decoded_text |-> "", json_ok |-> FALSE, json |-> JNum]

Base64Content(data) ==
    [text |-> TRUE, encoding |-> "base64", b64_ok |-> TRUE, decoded_data |-> data,
     decoded_text |-> "", json_ok |-> FALSE, json |-> JNum]

JsonContent(value) ==
    [text |-> TRUE, encoding |-> "", b64_ok |-> FALSE, decoded_data |-> <<>>,
     decoded_text |-> "", json_ok |-> TRUE, json |-> value]

TextContent(text) ==
    [text |-> TRUE, encoding |-> "", b64_ok |-> FALSE, decoded_data |-> <<>>,
     decoded_text |-> text, json_ok |-> FALSE, json |-> JNum]

Entry(url, headers, content) ==
    [object |-> TRUE, url |-> url, headers |-> headers, content |-> content]

MalformedEntry == [object |-> FALSE, url |-> "", headers |-> <<>>, content |-> NoContent]

get_content_type(headers) ==
    LET at == {k \in 1..Len(headers) : Lower(headers[k].name) = "content-type"}
    IN  IF at = {} THEN "" ELSE headers[Min(at)].value

\* the URLs extract_api_image_references adds to self.found_urls
extract_api_image_references(entry) ==
    LET content == entry.content
    IN  IF ~content.text THEN {}
        ELSE IF content.encoding = "base64" /\ ~content.b64_ok THEN {}
        ELSE IF content.json_ok THEN find_images_in_json(content.json)
        ELSE find_image_patterns_in_text(content.decoded_text)

\* the body of the loop of extract_spotify_images on one entry: whether it raised,
\* what it appended to images, what it added to self.found_urls
classify_entry(entry) ==
    IF ~entry.object
    THEN [raised |-> TRUE, images |-> <<>>, found |-> {}]
    ELSE IF is_spotify_image_url(entry.url) \/ is_spotify_video_url(entry.url)
    THEN LET info == NewMediaInfo(entry.url, get_content_type(entry.headers))
             content == entry.content
         IN  [raised |-> FALSE,
              images |-> << IF content.text /\ content.encoding = "base64" /\ content.b64_ok
                            THEN [info EXCEPT !.has_decoded = TRUE,
                                              !.decoded_data = content.decoded_data]
                            ELSE info >>,
              found |-> {}]
    ELSE IF Contains(entry.url, "api.spotify.com") \/ Contains(entry.url, "spclient")
    THEN [raised |-> FALSE, images |-> <<>>, found |-> extract_api_image_references(entry)]
    ELSE [raised |-> FALSE, images |-> <<>>, found |-> {}]

entry_error_aborts == "raise"

\* except Exception: continue
entry_error_handling == "continue"

(***************************************************************************)
(* The capture documents of the model.                                     *)
(***************************************************************************)
Header(value) == << [name |-> "Content-Type", value |-> value] >>

EntryChoices == <<
    MalformedEntry,
    Entry(InitA, Header("video/webm"), NoContent),
    Entry(SegA0, Header("video/webm"), NoContent),
    Entry(SegA1, Header("video/webm"), Base64Content(<<26, 69, 223, 163, 9, 9>>)),
    Entry(ImgX, Header("image/jpeg"), NoContent),
    Entry(ImgY, Header("image/png"), Base64Content(<<255, 216, 255, 224, 8>>)),
    Entry("https://api.spotify.com/v1/albums/1", Header("application/json"),
          JsonContent(JDict(<< <<"image", JStr(ImgX)>>,
                               <<"artist", JDict(<< <<"avatar", JStr(ImgY)>> >>)>> >>))),
    Entry("https://spclient.wg.spotify.com/metadata/4/track/1", Header("text/plain"),
          TextContent("<html>ab67616 service unavailable</html>")),
    Entry("https://open.spotify.com/track/1", Header("text/html"), NoContent) >>

EntrySet == {EntryChoices[k] : k \in 1..Len(EntryChoices)}

Documents ==
    { [log |-> shape, entries |-> <<>>] : shape \in {"absent", "null", "list", "object"} }
    \cup { [log |-> "entries", entries |-> e] : e \in SeqsUpTo(EntrySet, MaxEntries) }

\* classify_entry of the entries of the model, evaluated once
ClassifyTable == [e \in EntrySet |-> classify_entry(e)]

Classified(entry) ==
    IF entry \in EntrySet THEN ClassifyTable[entry] ELSE classify_entry(entry)

\* the candidates the documents of the model lead to, and download_media of each under
\* each response, evaluated once
DiscoverableURLs == UNION {ClassifyTable[e].found : e \in EntrySet}

CandidateInfos ==
    UNION { {ClassifyTable[e].images[k] : k \in 1..Len(ClassifyTable[e].images)} :
            e \in EntrySet }
    \cup {NewMediaInfo(u, "image/jpeg") : u \in DiscoverableURLs}

DownloadCases ==
    UNION { {<<m, r, now>> : r \in Responses(m.url), now \in RunClock} : m \in CandidateInfos }

DownloadTable == [c \in DownloadCases |-> download_media(c[1], c[2], c[3])]

Download(media_info, response, now) ==
    IF <<media_info, response, now>> \in DownloadCases
    THEN DownloadTable[<<media_info, response, now>>]
    ELSE download_media(media_info, response, now)

(***************************************************************************)
(* PipelineRunner: process_har_data.                                       *)
(***************************************************************************)
Init ==
    /\ found_urls = {}
    /\ arg = [fn |-> "process_har_data"]
    /\ ret = NoResult
    /\ pc = "idle"
    /\ har_data = NoDocument
    /\ idx = 0
    /\ extracted_media = <<>>
    /\ downloaded_files = <<>>
    /\ combined_videos = <<>>
    /\ files = <<>>
    /\ fetched = <<>>
    /\ todo = {}

\* process_har_data is called on a document
ProcessHarData ==
    /\ pc = "idle"
    /\ har_data' \in Documents
    /\ pc' = "extract"
    /\ UNCHANGED <<found_urls, arg, ret, idx, extracted_media, downloaded_files,
                   combined_videos, files, fetched, todo>>

\* where process_har_data goes once extract_spotify_images has returned media
AfterExtract(media) == IF media = <<>> THEN "combine" ELSE "download"

\* extract_spotify_images up to its loop (lines 53-60)
ExtractBegin ==
    /\ pc = "extract"
    /\ IF har_data.log = "null"
       \* 'entries' not in None: TypeError, caught nowhere
       THEN /\ pc' = "raised"
            /\ ret' = "TypeError"
            /\ idx' = idx
       ELSE IF har_data.log = "entries" /\ har_data.entries # <<>>
       THEN /\ pc' = "classify"
            /\ ret' = ret
            /\ idx' = 1
       ELSE /\ pc' = AfterExtract(<<>>)
            /\ ret' = ret
            /\ idx' = 1
    /\ UNCHANGED <<found_urls, arg, har_data, extracted_media, downloaded_files,
                   combined_videos, files, fetched, todo>>

\* one turn of the loop of extract_spotify_images (lines 62-124)
ClassifyEntry ==
    /\ pc = "classify"
    /\ \E r \in {Classified(har_data.entries[idx])} :
       \E media \in {extracted_media \o r.images} :
           IF r.raised /\ entry_error_handling # "continue"
           THEN /\ pc' = "raised"
                /\ ret' = "AttributeError"
                /\ UNCHANGED <<idx, extracted_media, found_urls>>
           ELSE /\ extracted_media' = media
                /\ found_urls' = found_urls \cup r.found
                /\ ret' = ret
                /\ IF idx = Len(har_data.entries)
                   THEN pc' = AfterExtract(media) /\ idx' = 1
                   ELSE pc' = pc /\ idx' = idx + 1
    /\ UNCHANGED <<arg, har_data, downloaded_files, combined_videos, files, fetched, todo>>

\* one turn of the first loop of process_har_data (lines 506-509)
DownloadCandidate ==
    /\ pc = "download"
    /\ \E response \in Responses(extracted_media[idx].url), now \in RunClock :
        \E r \in {Download(extracted_media[idx], response, now)} :
            /\ extracted_media' = [extracted_media EXCEPT ![idx] = r.media_info]
            /\ fetched' = IF r.fetched THEN Append(fetched, extracted_media[idx].url)
                          ELSE fetched
            /\ IF r.filepath # ""
               THEN /\ downloaded_files' = Append(downloaded_files, r.filepath)
                    /\ files' = WriteAll(files, << [path |-> r.filepath, data |-> r.data] >>)
               ELSE UNCHANGED <<downloaded_files, files>>
    /\ IF idx = Len(extracted_media)
       THEN pc' = "combine" /\ idx' = 1
       ELSE pc' = pc /\ idx' = idx + 1
    /\ UNCHANGED <<found_urls, arg, ret, har_data, combined_videos, todo>>

NeverDirect(url) == FALSE

\* url in [m['url'] for m in extracted_media]
IsDirect(url) == \E k \in 1..Len(extracted_media) : extracted_media[k].url = url

\* one turn of the last loop of process_har_data (lines 514-522); a set is visited in
\* no particular order
DownloadDiscovered ==
    /\ pc = "discovered"
    /\ \E url \in todo :
        /\ todo' = todo \ {url}
        /\ IF IsDirect(url)
           THEN UNCHANGED <<downloaded_files, files, fetched>>
           ELSE \E response \in Responses(url), now \in RunClock :
                \E r \in {Download(NewMediaInfo(url, "image/jpeg"), response, now)} :
                    /\ fetched' = Append(fetched, url)
                    /\ IF r.filepath # ""
                       THEN /\ downloaded_files' = Append(downloaded_files, r.filepath)
                            /\ files' = WriteAll(files,
                                                 << [path |-> r.filepath, data |-> r.data] >>)
                       ELSE UNCHANGED <<downloaded_files, files>>
    /\ UNCHANGED <<found_urls, arg, ret, pc, har_data, idx, extracted_media, combined_videos>>

\* save_analysis_report and the result (lines 524-535)
SaveReport ==
    /\ pc = "discovered"
    /\ todo = {}
    /\ IF har_data.log = "list"
       \* har_data.get('log', {}).get('version', ''): AttributeError, caught nowhere
       THEN pc' = "raised" /\ ret' = "AttributeError"
       ELSE /\ pc' = "done"
            /\ ret' = [success |-> TRUE,
                       total_media_found |-> Len(extracted_media),
                       downloaded_files |-> downloaded_files,
                       combined_videos |-> Len(combined_videos)]
    /\ UNCHANGED <<found_urls, arg, har_data, idx, extracted_media, downloaded_files,
                   combined_videos, files, fetched, todo>>

Next ==
    \/ ProcessHarData
    \/ ExtractBegin
    \/ ClassifyEntry
    \/ DownloadCandidate
    \/ CombineSegments
    \/ DownloadDiscovered
    \/ SaveReport

Spec == Init /\ [][Next]_vars

(***************************************************************************)
(* C6, C10: what a run of process_har_data does with a document.           *)
(***************************************************************************)
\* C6: over a document without the log key, or whose log has no entries, the run raises
\* nothing and ends with no candidate found, none resolved and no stream assembled.
C6_NoEntriesPathNoCrash ==
    har_data.log \in {"absent", "null", "list", "object"} =>
        /\ pc # "raised"
        /\ pc = "done" =>
            /\ ret.success
            /\ ret.total_media_found = 0
            /\ extracted_media = <<>>
            /\ fetched = <<>>
            /\ downloaded_files = <<>>
            /\ combined_videos = <<>>

IsMediaEntry(e) == e.object /\ (is_spotify_image_url(e.url) \/ is_spotify_video_url(e.url))
IsApiEntry(e) ==
    /\ e.object
    /\ ~IsMediaEntry(e)
    /\ (Contains(e.url, "api.spotify.com") \/ Contains(e.url, "spclient"))

\* the media entries and the API entries among the entries of the model, and what
\* scanning each API entry finds, evaluated once
MediaEntries == {e \in EntrySet : IsMediaEntry(e)}
ApiEntries == {e \in EntrySet : IsApiEntry(e)}
ApiFinds == [e \in ApiEntries |-> extract_api_image_references(e)]

InMediaEntries(e) == e \in MediaEntries

\* the URLs of a sequence of entries or candidates
URLsOf(seq) == [k \in 1..Len(seq) |-> seq[k].url]

IsLive(m) == ~m.has_decoded

\* the first n entries of the document
FirstEntries(n) == SubSeq(har_data.entries, 1, n)

\* the number of entries classified so far
ClassifiedSoFar ==
    IF pc \in {"idle", "extract"} THEN 0
    ELSE IF pc = "classify" THEN idx - 1
    ELSE Len(har_data.entries)

\* the number of direct candidates resolved so far
ResolvedSoFar ==
    IF pc \in {"idle", "extract", "classify"} THEN 0
    ELSE IF pc = "download" THEN idx - 1
    ELSE Len(extracted_media)

\* C10: over a document with the log.entries path, an entry that raises and a fetch that
\* fails (exception, status other than 200, body of MinBodyLen bytes or fewer) skip that
\* item alone: the run never raises, every entry read so far that is a media entry is a
\* candidate and every API entry read so far was scanned, whatever raised before it;
\* every candidate reached so far without an embedded payload was fetched exactly once,
\* in order, whatever failed before it; a discovered URL is fetched at most once; the
\* loops stand at an item that exists, and the run ends with its result.
C10_FailuresSkipOneItem ==
    har_data.log = "entries" =>
        /\ pc # "raised"
        /\ URLsOf(extracted_media)
               = URLsOf(SelectSeq(FirstEntries(ClassifiedSoFar), InMediaEntries))
        /\ \A k \in 1..ClassifiedSoFar :
               har_data.entries[k] \in ApiEntries =>
                   ApiFinds[har_data.entries[k]] \subseteq found_urls
        /\ LET live == URLsOf(SelectSeq(SubSeq(extracted_media, 1, ResolvedSoFar), IsLive))
           IN  /\ Len(fetched) >= Len(live)
               /\ SubSeq(fetched, 1, Len(live)) = live
               /\ pc \in {"download", "combine"} => fetched = live
               /\ \A i, j \in (Len(live) + 1)..Len(fetched) :
                      i # j => fetched[i] # fetched[j]
        /\ pc = "classify" => idx \in 1..Len(har_data.entries)
        /\ pc = "download" => idx \in 1..Len(extracted_media)
        /\ pc = "done" =>
            /\ ret.success
            /\ ret.total_media_found = Len(extracted_media)
            /\ ret.combined_videos = Len(combined_videos)

\* C10 witness: the first entry raised, the fetch of the next entry's candidate failed,
\* the fetch of the last one's was accepted, and the run ended with its result
C10_RunSurvivesFailures ==
    /\ pc = "done"
    /\ Len(har_data.entries) = 3
    /\ ~har_data.entries[1].object
    /\ URLsOf(extracted_media) = <<InitA, SegA0>>
    /\ fetched = <<InitA, SegA0>>
    /\ ~extracted_media[1].is_video_segment
    /\ extracted_media[2].is_video_segment
    /\ downloaded_files = << PathJoin(videos_folder, "0.webm") >>
    /\ ret.total_media_found = 2

(***************************************************************************)
(* One extractor, process_har_data called on it up to MaxRuns times.       *)
(* self.found_urls and the output folders belong to the extractor and      *)
(* outlive a call; extracted_media, downloaded_files and combined_videos   *)
(* are locals of the call.  fetched lists the requests of the call under   *)
(* way; arg.found_before is self.found_urls as the call found it.          *)
(***************************************************************************)
\* an init fragment whose body the capture embeds
EmbeddedInitEntry == Entry(InitA, Header("video/webm"), Base64Content(<<26, 69, 223, 163, 7, 7>>))

RunDocuments ==
    { [log |-> "absent", entries |-> <<>>],
      [log |-> "entries", entries |-> << EmbeddedInitEntry, EntryChoices[3] >>],
      [log |-> "entries", entries |-> << EntryChoices[2], EntryChoices[4], EntryChoices[3] >>],
      [log |-> "list", entries |-> <<>>],
      [log |-> "entries", entries |-> << EntryChoices[7] >>],
      [log |-> "entries", entries |-> << EntryChoices[8] >>],
      [log |-> "entries", entries |-> << EntryChoices[9] >>],
      [log |-> "entries", entries |-> << EntryChoices[5], EntryChoices[7] >>],
      [log |-> "entries", entries |-> << EntryChoices[2], EntryChoices[3] >>] }

InitRuns ==
    /\ found_urls = {}
    /\ arg = [fn |-> "process_har_data", run |-> 0, found_before |-> {}]
    /\ ret = NoResult
    /\ pc = "idle"
    /\ har_data = NoDocument
    /\ idx = 0
    /\ extracted_media = <<>>
    /\ downloaded_files = <<>>
    /\ combined_videos = <<>>
    /\ files = <<>>
    /\ fetched = <<>>
    /\ todo = {}

\* process_har_data is called on a document, on a new extractor or on one whose earlier
\* call has returned or raised
ProcessHarDataRun ==
    /\ pc \in {"idle", "done", "raised"}
    /\ arg.run < MaxRuns
    /\ har_data' \in RunDocuments
    /\ arg' = [fn |-> "process_har_data", run |-> arg.run + 1, found_before |-> found_urls]
    /\ pc' = "extract"
    /\ ret' = NoResult
    /\ idx' = 0
    /\ extracted_media' = <<>>
    /\ downloaded_files' = <<>>
    /\ combined_videos' = <<>>
    /\ fetched' = <<>>
    /\ todo' = {}
    /\ UNCHANGED <<found_urls, files>>

NextRuns ==
    \/ ProcessHarDataRun
    \/ ExtractBegin
    \/ ClassifyEntry
    \/ DownloadCandidate
    \/ CombineSegments
    \/ DownloadDiscovered
    \/ SaveReport

SpecRuns == InitRuns /\ [][NextRuns]_vars

(***************************************************************************)
(* C11: the discovered set across calls.                                   *)
(***************************************************************************)
\* what scanning the API entries of the document of the call under way finds
FoundInThisDocument ==
    UNION { ApiFinds[har_data.entries[k]] :
            k \in {j \in 1..Len(har_data.entries) : har_data.entries[j] \in ApiEntries} }

\* the URLs of the requests of the call under way that were made for discovered URLs
FetchedAsDiscovered ==
    LET direct == Len(SelectSeq(extracted_media, IsLive))
    IN  {fetched[k] : k \in (direct + 1)..Len(fetched)}

\* C11: in a second or later call of process_har_data on one extractor, the URLs fetched
\* as discovered candidates and the found_urls reported at the end of the call are among
\* the URLs found by scanning the API entries of that call's document, never URLs
\* discovered only in an earlier call's document.
C11_DiscoveredSetIsPerRun ==
    arg.run >= 2 =>
        /\ pc \in {"discovered", "done"} => FetchedAsDiscovered \subseteq FoundInThisDocument
        /\ pc = "done" => found_urls \subseteq FoundInThisDocument

(***************************************************************************)
(* C12: candidates that carry an embedded payload.                         *)
(***************************************************************************)
\* C12: in every call, a candidate is flagged as a video segment only when it has no
\* embedded payload and its URL was fetched with an accepted response, whose body is its
\* segment_data; a candidate with an embedded payload is never flagged, has no segment
\* role and is in no segment group, even when its URL is an init or media fragment of
\* the fragmented-video host; a stream is returned only for a group with a flagged init
\* candidate, and no returned file holds the bytes of an embedded payload.
C12_EmbeddedNeverAssembled ==
    /\ \A k \in 1..Len(extracted_media) :
        LET m == extracted_media[k]
        IN  /\ m.has_decoded =>
                /\ ~m.is_video_segment
                /\ m.segment_data = <<>>
                /\ m.segment_type = ""
                /\ ~IsGrouped(m)
            /\ m.is_video_segment =>
                /\ ~m.has_decoded
                /\ \E j \in 1..Len(fetched) : fetched[j] = m.url
                /\ Len(m.segment_data) > MinBodyLen
                /\ m.segment_type \in {"init", "media", "unknown"}
    /\ pc \in {"discovered", "done"} =>
        /\ \A key \in SuppliedKeys :
               Returned(output_path(key)) =>
                   \E i \in InitMembers(key) : ~extracted_media[i].has_decoded
        /\ \A j \in 1..Len(combined_videos) :
               /\ combined_videos[j] \in DOMAIN files
               /\ \A k \in 1..Len(extracted_media) :
                      extracted_media[k].has_decoded =>
                          ~BytesContain(files[combined_videos[j]],
                                        extracted_media[k].decoded_data)

\* C12 witness: a live init fragment, an embedded media fragment and a live media
\* fragment of one group; the embedded one was saved unflagged and the stream is the two
\* live bodies
C12_EmbeddedFragmentLeftOut ==
    /\ pc = "done"
    /\ URLsOf(extracted_media) = <<InitA, SegA1, SegA0>>
    /\ extracted_media[2].has_decoded
    /\ ~extracted_media[2].is_video_segment
    /\ PathJoin(videos_folder, "1.webm") \in DOMAIN files
    /\ files[PathJoin(videos_folder, "1.webm")] = extracted_media[2].decoded_data
    /\ Returned(output_path("a1_profile_7"))
    /\ files[output_path("a1_profile_7")]
           = OkResponse(InitA).content \o OkResponse(SegA0).content

(***************************************************************************)
(* C13: the order of the phases of one call of process_har_data.           *)
(***************************************************************************)
\* every entry of the document has been classified: the candidates are its media
\* entries, in order, and the discovered set holds what its API entries give
AllClassified ==
    /\ URLsOf(extracted_media) = URLsOf(SelectSeq(har_data.entries, InMediaEntries))
    /\ FoundInThisDocument \subseteq found_urls

\* every direct candidate has been resolved: the ones without an embedded payload were
\* fetched, in order, and nothing else was
AllDirectResolved(requests) ==
    requests = URLsOf(SelectSeq(extracted_media, IsLive))

\* no assembled stream is on disk
NothingAssembled ==
    /\ combined_videos = <<>>
    /\ \A k \in 1..Len(extracted_media) :
           output_path(group_key_of(extracted_media[k].url)) \notin DOMAIN files

\* C13: within one call the phases come in a fixed order.  Before the entries are all
\* classified nothing is fetched or written; while direct candidates are being resolved
\* the entries are all classified and nothing is assembled; when assembly starts every
\* direct candidate has been resolved; a discovered URL is fetched only after assembly,
\* only when it is in the discovered set and is not the URL of a direct candidate, so
\* the members of the segment groups are direct candidates and no assembled stream
\* holds the body fetched for a discovered URL.
C13_PhasesInFixedOrder ==
    /\ pc \in {"idle", "extract", "classify"} =>
        /\ fetched = <<>>
        /\ downloaded_files = <<>>
        /\ files = <<>>
        /\ NothingAssembled
    /\ pc = "download" =>
        /\ AllClassified
        /\ AllDirectResolved(fetched
               \o URLsOf(SelectSeq(SubSeq(extracted_media, idx, Len(extracted_media)), IsLive)))
        /\ NothingAssembled
    /\ pc = "combine" =>
        /\ AllClassified
        /\ AllDirectResolved(fetched)
        /\ NothingAssembled
    /\ pc \in {"discovered", "done"} =>
        /\ AllClassified
        /\ AllDirectResolved(SubSeq(fetched, 1, Len(SelectSeq(extracted_media, IsLive))))
        /\ \A u \in FetchedAsDiscovered :
            /\ u \in found_urls
            /\ \A k \in 1..Len(extracted_media) : extracted_media[k].url # u
            /\ \A j \in 1..Len(combined_videos) :
                   ~BytesContain(files[combined_videos[j]], OkResponse(u).content)
        /\ pc = "done" =>
               \A u \in found_urls :
                   u \in FetchedAsDiscovered
                   \/ \E k \in 1..Len(extracted_media) : extracted_media[k].url = u

\* C13 witness: a call whose document holds an image entry and an API entry that names
\* the same image and another one: the image was fetched once, as a direct candidate,
\* and the other one after it, as a discovered URL
C13_DiscoveredAfterDirect ==
    /\ pc = "done"
    /\ har_data.entries = << EntryChoices[7], EntryChoices[5] >>
    /\ URLsOf(extracted_media) = <<ImgX>>
    /\ found_urls = {ImgX, ImgY}
    /\ fetched = <<ImgX, ImgY>>

====
